---- MODULE Spec2Model ----
(***************************************************************************)
(* Tiny RGB Blinker (ATtiny85 firmware, src/Tiny_RGB_Blinker.cpp).        *)
(*                                                                         *)
(* The model follows the single thread of control of main() statement by  *)
(* statement through animateLoop(), animateOne(), night() and wdSleep(),  *)
(* together with the interrupt handlers that end a sleep and the ambient  *)
(* light that discharges the floating sense pin.  Program positions are   *)
(* named after the source line that is about to execute.                  *)
(***************************************************************************)
EXTENDS Integers, Sequences, FiniteSets, TLC

VARIABLES
    pc,         \* source line about to execute
    ra,         \* return position of the active night() call
    cpu,        \* "run" | "sleep" (inside sleep_cpu) | "woken" (handler ran, before cli)
    SREG_I,     \* global interrupt enable (sei / cli)
    DDRB,       \* set of port B bits configured as output
    PORTB,      \* set of port B bits driven high / pulled up
    GIMSK,      \* subset of {"INT0"}
    GIFR,       \* subset of {"INTF0"}
    WDTCR,      \* value last written to the watchdog control register
    PRR,        \* set of powered-down peripherals
    TCCR0A, TCCR0B, GTCCR, TCCR1, TIMSK,   \* timer configuration, as sets of bits
    sleepMode,  \* "PWR_DOWN" | "IDLE"
    tcnt0h,     \* overflow counter of TIM0_OVF_vect
    x, a, b, c, \* XABC generator state
    p1, p2, p3, \* fade target of the running animateOne()
    i,          \* loop counter of animateLoop()
    result,     \* value sampled by night() at line 71
    charged,    \* the LED junction capacitance on the sense pin still holds a high level
    wakeCause,  \* handler that ended the last sleep: "none" | "WDT" | "INT0"
    \* ---- observation (history) variables; they never influence the program ----
    cycles,       \* animateOne() calls started since boot
    burstCycles,  \* animateOne() calls started in the current burst
    burstPolls,   \* night() results delivered to animateLoop() in the current burst
    firstNight,   \* index of the first poll of the burst that read NIGHT (0: none yet)
    firstDay,     \* index of the first poll of the burst that read DAY (0: none yet)
    lastPoll,     \* "none" | "NIGHT" | "DAY": most recent night() result
    bursts,       \* bursts started since boot, saturating
    sleeps8,      \* 8 s sleeps completed since the last burst ended, saturating (0 in a burst)
    pollsIdle,    \* night() results received since the last animation cycle, saturating
    nightOnly,    \* every poll since boot read NIGHT
    sampledPin,   \* level of the sense pin when line 71 read it
    sampledMode,  \* TRUE iff the pin was a floating input when line 71 read it
    outcome,      \* (random() & 3) of the running animateOne(), -1 outside it
    \* ---- the ramp of animateOne() and waitTimer() ----
    s1, s2, s3,   \* 16-bit duty accumulators (lines 154-156)
    ri,           \* the 8-bit step counter i of animateOne() (line 157)
    OCR0A, OCR0B, OCR1B,   \* PWM duty registers
    wra,          \* return position of the active waitTimer() call
    \* ---- further observation variables ----
    steps,        \* duty writes (ramp steps) made by the running animateOne()
    waits,        \* waitTimer() calls completed by the running animateOne()
    ovfRuns,      \* runs of TIM0_OVF_vect since the active waitTimer() call began
    draws         \* calls of random() since boot

vars == << pc, ra, cpu, SREG_I, DDRB, PORTB, GIMSK, GIFR, WDTCR, PRR,
           TCCR0A, TCCR0B, GTCCR, TCCR1, TIMSK, sleepMode, tcnt0h,
           x, a, b, c, p1, p2, p3, i, result, charged, wakeCause,
           cycles, burstCycles, burstPolls, firstNight, firstDay, lastPoll,
           bursts, sleeps8, pollsIdle, nightOnly, sampledPin, sampledMode, outcome,
           s1, s2, s3, ri, OCR0A, OCR0B, OCR1B, wra, steps, waits, ovfRuns,
           draws >>

hw    == << DDRB, PORTB, GIMSK, GIFR, WDTCR >>
tmr   == << PRR, TCCR0A, TCCR0B, GTCCR, TCCR1, TIMSK, sleepMode, tcnt0h >>
prng  == << x, a, b, c >>
tgt   == << p1, p2, p3 >>
slp   == << cpu, SREG_I, wakeCause >>
hist  == << cycles, burstCycles, burstPolls, firstNight, firstDay, lastPoll,
            bursts, sleeps8, pollsIdle, nightOnly >>
smp   == << sampledPin, sampledMode >>
loc   == << i, ra, result >>
acc   == << s1, s2, s3, ri, OCR0A, OCR0B, OCR1B >>
wt    == << wra, ovfRuns >>
cnt   == << steps, waits >>
rmp   == << acc, wt, cnt, draws >>

----------------------------------------------------------------------------
(* Bounds of the model *)

\* a burst may begin only while fewer than MaxStart animation cycles have run since
\* boot (the generator state never repeats within reach, so the run must be cut)
MaxStart == 8
\* saturation of the counters bursts, sleeps8 and pollsIdle
Sat == 3

----------------------------------------------------------------------------
(* Program constants *)

LED0_BIT == 2
LED1_BIT == 0
LED2_BIT == 1
LED3_BIT == 4

\* avr/wdt.h timeout codes used by the calls of wdSleep
WDTO_15MS  == 0
WDTO_250MS == 4
WDTO_500MS == 5
WDTO_8S    == 9
\* bit positions in WDTCR
WDIF == 7
WDIE == 6
WDP3 == 5

\* cycle budget of one burst
LoopBudget == 240

Byte == 256

Sat1(n) == IF n < Sat THEN n + 1 ELSE Sat

----------------------------------------------------------------------------
(* 8-bit arithmetic *)

RECURSIVE XorN(_, _, _)
XorN(u, v, n) ==
    IF n = 0 THEN 0
    ELSE (IF (u % 2) = (v % 2) THEN 0 ELSE 1) + 2 * XorN(u \div 2, v \div 2, n - 1)

Xor8(u, v) == XorN(u, v, 8)

RECURSIVE Pow2(_)
Pow2(n) == IF n = 0 THEN 1 ELSE 2 * Pow2(n - 1)

BitSet(v, n) == (v \div Pow2(n)) % 2 = 1

RECURSIVE OrN(_, _, _)
OrN(u, v, n) ==
    IF n = 0 THEN 0
    ELSE (IF (u % 2) = 1 \/ (v % 2) = 1 THEN 1 ELSE 0) + 2 * OrN(u \div 2, v \div 2, n - 1)

Or8(u, v) == OrN(u, v, 8)

----------------------------------------------------------------------------
(* XABC generator: random() returns the new state; the byte returned is .c *)

\* line 89 with the right shift of b dropped
randomBug(s) ==
    LET x1 == (s.x + 1) % Byte
        a1 == Xor8(Xor8(s.a, s.c), x1)
        b1 == (s.b + a1) % Byte
        c1 == (s.c + Xor8(b1, a1)) % Byte
    IN  [x |-> x1, a |-> a1, b |-> b1, c |-> c1]

\* lines 85-91
random(s) ==
    LET x1 == (s.x + 1) % Byte
        a1 == Xor8(Xor8(s.a, s.c), x1)
        b1 == (s.b + a1) % Byte
        c1 == (s.c + Xor8(b1 \div 2, a1)) % Byte
    IN  [x |-> x1, a |-> a1, b |-> b1, c |-> c1]

Seed == [x |-> 202, a |-> 254, b |-> 186, c |-> 190]

----------------------------------------------------------------------------
(* wdSleep: the WDTCR value computed at line 58 *)

wdSleepValue(wdto) ==
    Or8(Or8(Pow2(WDIF), Pow2(WDIE)),
        Or8(wdto % 8, (wdto \div 8) * Pow2(WDP3)))

\* timeout code passed by each call site of wdSleep
Wdto(p) ==
    CASE p = "L64"  -> WDTO_15MS
      [] p = "L70"  -> WDTO_250MS
      [] p = "L110" -> WDTO_500MS
      [] p = "L212" -> WDTO_8S
      [] p = "L216" -> WDTO_8S

SleepSites == {"L64", "L70", "L110", "L212", "L216"}

\* statement following each call of wdSleep
AfterSleep(p) ==
    CASE p = "L64"  -> "L65"
      [] p = "L70"  -> "L71"
      [] p = "L110" -> "L194"
      [] p = "L212" -> "L213"
      [] p = "L216" -> "L217"

----------------------------------------------------------------------------
(* The sense pin PB2 as read through PINB *)

PinHigh ==
    IF LED0_BIT \in DDRB THEN LED0_BIT \in PORTB
    ELSE (LED0_BIT \in PORTB) \/ charged

Floating == LED0_BIT \notin DDRB /\ LED0_BIT \notin PORTB

----------------------------------------------------------------------------
(* State after the setup section of main(), lines 201-206.  Registers that  *)
(* main() does not write hold their reset value 0; tcnt0h is zero-initialised. *)

Init ==
    /\ pc = "L209" /\ ra = "none" /\ cpu = "run" /\ SREG_I = FALSE
    /\ DDRB = {LED0_BIT, LED1_BIT, LED2_BIT, LED3_BIT}
    /\ PORTB = (0..7) \ {LED0_BIT, LED1_BIT, LED2_BIT, LED3_BIT}
    /\ GIMSK = {} /\ GIFR = {} /\ WDTCR = 0
    /\ PRR = {"PRTIM1", "PRTIM0", "PRUSI", "PRADC"}
    /\ TCCR0A = {} /\ TCCR0B = {} /\ GTCCR = {} /\ TCCR1 = {} /\ TIMSK = {}
    /\ sleepMode = "PWR_DOWN" /\ tcnt0h = 0
    /\ x = Seed.x /\ a = Seed.a /\ b = Seed.b /\ c = Seed.c
    /\ p1 = 0 /\ p2 = 0 /\ p3 = 0 /\ i = 0 /\ result = FALSE
    /\ charged = FALSE /\ wakeCause = "none"
    /\ cycles = 0 /\ burstCycles = 0 /\ burstPolls = 0
    /\ firstNight = 0 /\ firstDay = 0 /\ lastPoll = "none"
    /\ bursts = 0 /\ sleeps8 = 0 /\ pollsIdle = 0 /\ nightOnly = TRUE
    /\ sampledPin = FALSE /\ sampledMode = FALSE /\ outcome = -1
    /\ s1 = 0 /\ s2 = 0 /\ s3 = 0 /\ ri = 0
    /\ OCR0A = 0 /\ OCR0B = 0 /\ OCR1B = 0 /\ wra = "none"
    /\ steps = 0 /\ waits = 0 /\ ovfRuns = 0 /\ draws = 0

----------------------------------------------------------------------------
(* wdSleepImpl, lines 45-53, and the handlers that end the sleep *)

\* lines 46-51: program the watchdog, sei, sleep_cpu
WdSleepEnter ==
    /\ pc \in SleepSites /\ cpu = "run"
    /\ WDTCR' = wdSleepValue(Wdto(pc))
    /\ SREG_I' = TRUE /\ cpu' = "sleep" /\ wakeCause' = "none"
    \* the statistics of the finished burst are dropped once the first 8 s sleep begins
    /\ IF pc = "L212"
       THEN burstCycles' = 0 /\ burstPolls' = 0 /\ firstNight' = 0 /\ firstDay' = 0
       ELSE UNCHANGED << burstCycles, burstPolls, firstNight, firstDay >>
    /\ UNCHANGED << pc, DDRB, PORTB, GIMSK, GIFR, tmr, prng, tgt, loc, charged,
                    cycles, lastPoll, bursts, sleeps8, pollsIdle, nightOnly, smp, outcome, rmp >>

\* EMPTY_INTERRUPT(WDT_vect), line 36: the watchdog timeout wakes the processor
WDT_vect ==
    /\ cpu = "sleep" /\ SREG_I /\ BitSet(WDTCR, WDIE)
    /\ cpu' = "woken" /\ wakeCause' = "WDT"
    /\ UNCHANGED << pc, SREG_I, hw, tmr, prng, tgt, loc, charged, hist, smp, outcome, rmp >>

\* the low-level condition of INT0: enabled in GIMSK and the pin reads low
Int0Pending == "INT0" \in GIMSK /\ ~PinHigh

\* EMPTY_INTERRUPT(INT0_vect), line 37: a low level on PB2 wakes the processor
INT0_vect ==
    /\ cpu = "sleep" /\ SREG_I /\ Int0Pending
    /\ cpu' = "woken" /\ wakeCause' = "INT0"
    /\ UNCHANGED << pc, SREG_I, hw, tmr, prng, tgt, loc, charged, hist, smp, outcome, rmp >>

\* line 52 and the return, with INT0 disabled on the way out
WdSleepReturnDropsInt0 ==
    /\ pc \in SleepSites /\ cpu = "woken"
    /\ SREG_I' = FALSE /\ cpu' = "run" /\ pc' = AfterSleep(pc)
    /\ GIMSK' = GIMSK \ {"INT0"}
    /\ sleeps8' = IF pc \in {"L212", "L216"} THEN Sat1(sleeps8) ELSE sleeps8
    /\ outcome' = IF pc = "L110" THEN -1 ELSE outcome
    /\ UNCHANGED << wakeCause, DDRB, PORTB, GIFR, WDTCR, tmr, prng, tgt, loc, charged, smp,
                    cycles, burstCycles, burstPolls, firstNight, firstDay, lastPoll,
                    bursts, pollsIdle, nightOnly, rmp >>

\* line 52: cli, and return to the caller of wdSleep
WdSleepReturn ==
    /\ pc \in SleepSites /\ cpu = "woken"
    /\ SREG_I' = FALSE /\ cpu' = "run" /\ pc' = AfterSleep(pc)
    /\ sleeps8' = IF pc \in {"L212", "L216"} THEN Sat1(sleeps8) ELSE sleeps8
    /\ outcome' = IF pc = "L110" THEN -1 ELSE outcome
    /\ UNCHANGED << wakeCause, hw, tmr, prng, tgt, loc, charged, smp,
                    cycles, burstCycles, burstPolls, firstNight, firstDay, lastPoll,
                    bursts, pollsIdle, nightOnly, rmp >>

----------------------------------------------------------------------------
(* Ambient light: photocurrent discharges the floating, charged sense pin *)

Discharge ==
    /\ Floating /\ charged
    /\ charged' = FALSE
    /\ UNCHANGED << pc, slp, hw, tmr, prng, tgt, loc, hist, smp, outcome, rmp >>

----------------------------------------------------------------------------
(* night(), lines 61-76 *)

NightCallers == {"L194", "L213", "L217"}

\* line 63, entered from one of the three calls: drive the sense pin high
Night63 ==
    /\ pc \in NightCallers /\ cpu = "run"
    /\ ra' = pc /\ pc' = "L64"
    /\ PORTB' = PORTB \cup {LED0_BIT}
    /\ charged' = (LED0_BIT \in DDRB)
    /\ UNCHANGED << slp, DDRB, GIMSK, GIFR, WDTCR, tmr, prng, tgt, i, result,
                    hist, smp, outcome, rmp >>

\* line 65: the pin becomes an input
Night65 ==
    /\ pc = "L65"
    /\ DDRB' = DDRB \ {LED0_BIT} /\ pc' = "L66"
    /\ UNCHANGED << slp, PORTB, GIMSK, GIFR, WDTCR, tmr, prng, tgt, loc, charged,
                    hist, smp, outcome, rmp >>

\* line 66: the pull-up is released, the pin floats
Night66 ==
    /\ pc = "L66"
    /\ PORTB' = PORTB \ {LED0_BIT} /\ pc' = "L68"
    /\ UNCHANGED << slp, DDRB, GIMSK, GIFR, WDTCR, tmr, prng, tgt, loc, charged,
                    hist, smp, outcome, rmp >>

\* the register value written at line 68, with the write left out
EnableInt0Skipped == GIMSK

\* the register value written at line 68
EnableInt0 == GIMSK \cup {"INT0"}

\* line 68: enable INT0
Night68 ==
    /\ pc = "L68"
    /\ GIMSK' = EnableInt0 /\ pc' = "L69"
    /\ UNCHANGED << slp, DDRB, PORTB, GIFR, WDTCR, tmr, prng, tgt, loc, charged,
                    hist, smp, outcome, rmp >>

\* line 69: clear the pending flag
Night69 ==
    /\ pc = "L69"
    /\ GIFR' = GIFR \ {"INTF0"} /\ pc' = "L70"
    /\ UNCHANGED << slp, DDRB, PORTB, GIMSK, WDTCR, tmr, prng, tgt, loc, charged,
                    hist, smp, outcome, rmp >>

\* the expression of line 71
SampleInverted == ~PinHigh

Sample == PinHigh

\* line 71: sample the pin
Night71 ==
    /\ pc = "L71"
    /\ result' = Sample /\ pc' = "L72"
    /\ sampledPin' = PinHigh /\ sampledMode' = Floating
    /\ UNCHANGED << slp, hw, tmr, prng, tgt, i, ra, charged, hist, outcome, rmp >>

\* the register value written at line 72
DisableInt0Skipped == GIMSK

DisableInt0 == GIMSK \ {"INT0"}

\* line 72: disable INT0
Night72 ==
    /\ pc = "L72"
    /\ GIMSK' = DisableInt0 /\ pc' = "L74"
    /\ UNCHANGED << slp, DDRB, PORTB, GIFR, WDTCR, tmr, prng, tgt, loc, charged,
                    hist, smp, outcome, rmp >>

\* line 74: back to output; the pin is driven to the level of PORTB
Night74 ==
    /\ pc = "L74"
    /\ DDRB' = DDRB \cup {LED0_BIT} /\ pc' = "L75"
    /\ charged' = (LED0_BIT \in PORTB)
    /\ UNCHANGED << slp, PORTB, GIMSK, GIFR, WDTCR, tmr, prng, tgt, loc,
                    hist, smp, outcome, rmp >>

\* position of the caller's test of the value returned by night()
TestOf(p) ==
    CASE p = "L194" -> "L194t"
      [] p = "L213" -> "L213t"
      [] p = "L217" -> "L217t"

\* line 75: return result
Night75 ==
    /\ pc = "L75"
    /\ pc' = TestOf(ra)
    /\ lastPoll' = IF result THEN "NIGHT" ELSE "DAY"
    /\ nightOnly' = (nightOnly /\ result)
    /\ pollsIdle' = Sat1(pollsIdle)
    /\ IF ra = "L194"
       THEN /\ burstPolls' = burstPolls + 1
            /\ firstNight' = IF firstNight = 0 /\ result THEN burstPolls + 1 ELSE firstNight
            /\ firstDay' = IF firstDay = 0 /\ ~result THEN burstPolls + 1 ELSE firstDay
       ELSE UNCHANGED << burstPolls, firstNight, firstDay >>
    /\ wakeCause' = "none" /\ sampledPin' = FALSE /\ sampledMode' = FALSE
    /\ UNCHANGED << cpu, SREG_I, hw, tmr, prng, tgt, loc, charged,
                    cycles, burstCycles, bursts, sleeps8, outcome, rmp >>

Night == Night63 \/ Night65 \/ Night66 \/ Night68 \/ Night69 \/ Night71
         \/ Night72 \/ Night74 \/ Night75

----------------------------------------------------------------------------
(* animateOne(), lines 104-188 *)

\* lines 105-132 with the secondary channels of outcome 3 both set
fadeTargetBug(s) ==
    LET r1 == random(s)
        r2 == random(r1)
        r3 == random(r2)
        odd == (r2.c % 2) = 1
        sel == r1.c % 4
    IN  CASE sel = 0 -> [p1 |-> 0, p2 |-> 0, p3 |-> 0, s |-> r1, sel |-> 0]
          [] sel = 1 -> [p1 |-> 255, p2 |-> IF odd THEN r3.c ELSE 0,
                         p3 |-> IF odd THEN 0 ELSE r3.c, s |-> r3, sel |-> 1]
          [] sel = 2 -> [p1 |-> IF odd THEN r3.c ELSE 0, p2 |-> 255,
                         p3 |-> IF odd THEN 0 ELSE r3.c, s |-> r3, sel |-> 2]
          [] sel = 3 -> [p1 |-> r3.c, p2 |-> r3.c, p3 |-> 255, s |-> r3, sel |-> 3]

\* lines 105-132: the fade target chosen from generator state s, and the state left
fadeTarget(s) ==
    LET r1 == random(s)      \* switch (random() & 3)
        r2 == random(r1)     \* if (random() & 1)
        r3 == random(r2)     \* px = random()
        odd == (r2.c % 2) = 1
        sel == r1.c % 4
    IN  CASE sel = 0 -> [p1 |-> 0, p2 |-> 0, p3 |-> 0, s |-> r1, sel |-> 0]
          [] sel = 1 -> [p1 |-> 255, p2 |-> IF odd THEN r3.c ELSE 0,
                         p3 |-> IF odd THEN 0 ELSE r3.c, s |-> r3, sel |-> 1]
          [] sel = 2 -> [p1 |-> IF odd THEN r3.c ELSE 0, p2 |-> 255,
                         p3 |-> IF odd THEN 0 ELSE r3.c, s |-> r3, sel |-> 2]
          [] sel = 3 -> [p1 |-> IF odd THEN r3.c ELSE 0,
                         p2 |-> IF odd THEN 0 ELSE r3.c, p3 |-> 255, s |-> r3, sel |-> 3]

\* line 193 and lines 105-132: enter animateOne() and select the fade target
AnimateSelect ==
    /\ pc = "L193"
    /\ LET t == fadeTarget([x |-> x, a |-> a, b |-> b, c |-> c])
       IN  /\ x' = t.s.x /\ a' = t.s.a /\ b' = t.s.b /\ c' = t.s.c
           /\ p1' = t.p1 /\ p2' = t.p2 /\ p3' = t.p3
           /\ outcome' = t.sel
           /\ pc' = IF t.sel = 0 THEN "L110" ELSE "L134"
           /\ draws' = draws + (IF t.sel = 0 THEN 1 ELSE 3)
    /\ cycles' = cycles + 1 /\ burstCycles' = burstCycles + 1 /\ pollsIdle' = 0
    /\ UNCHANGED << slp, hw, tmr, loc, charged, burstPolls, firstNight, firstDay,
                    lastPoll, bursts, sleeps8, nightOnly, smp, acc, wt, cnt >>

\* line 134: power the timers on
Setup134 ==
    /\ pc = "L134"
    /\ PRR' = PRR \ {"PRTIM1", "PRTIM0"}
    /\ pc' = "L136"
    /\ UNCHANGED << slp, hw, TCCR0A, TCCR0B, GTCCR, TCCR1, TIMSK, sleepMode, tcnt0h,
                    prng, tgt, loc, charged, hist, smp, outcome, rmp >>

\* lines 136-146: start both timers and connect the PWM outputs of the non-zero channels
Setup136 ==
    /\ pc = "L136"
    /\ TCCR0A' = {"WGM01", "WGM00"} \cup (IF p1 # 0 THEN {"COM0A1"} ELSE {})
                                    \cup (IF p2 # 0 THEN {"COM0B1"} ELSE {})
    /\ TCCR0B' = {"CS00"}
    /\ GTCCR' = {"COM1B1"} \cup (IF p3 # 0 THEN {"PWM1B"} ELSE {})
    /\ TCCR1' = {"CS10"}
    /\ pc' = "L148"
    /\ UNCHANGED << slp, hw, PRR, TIMSK, sleepMode, tcnt0h,
                    prng, tgt, loc, charged, hist, smp, outcome, rmp >>

\* the value written to TIMSK at line 150, with the write left out
EnableOverflowSkipped == TIMSK

\* the value written to TIMSK at line 150
EnableOverflow == TIMSK \cup {"TOIE0"}

\* lines 148-151: reset the timer counters, enable the overflow interrupt
Setup148 ==
    /\ pc = "L148"
    /\ TIMSK' = EnableOverflow
    /\ pc' = "L152"
    /\ UNCHANGED << slp, hw, PRR, TCCR0A, TCCR0B, GTCCR, TCCR1, sleepMode, tcnt0h,
                    prng, tgt, loc, charged, hist, smp, outcome, rmp >>

\* lines 152-157: idle sleep from now on; clear the accumulators and the step counter
Setup152 ==
    /\ pc = "L152"
    /\ sleepMode' = "IDLE"
    /\ s1' = 0 /\ s2' = 0 /\ s3' = 0 /\ ri' = 0
    /\ pc' = "L154"
    /\ UNCHANGED << slp, hw, PRR, TCCR0A, TCCR0B, GTCCR, TCCR1, TIMSK, tcnt0h,
                    prng, tgt, loc, charged, hist, smp, outcome,
                    OCR0A, OCR0B, OCR1B, wt, cnt, draws >>

AnimateSetup == Setup134 \/ Setup136 \/ Setup148 \/ Setup152

Word == 65536

\* one iteration of lines 160-162 on a 16-bit accumulator
AccAdd(s, p) == (s + p) % Word

\* one iteration of lines 170-172 on a 16-bit accumulator
AccSub(s, p) == (s - p) % Word

\* steps of each of the two do-while loops: the 8-bit counter wraps to 0
RampSteps == 256

\* the shift of lines 163-165 and 173-175 with the low byte taken instead
DutyLowByte(s) == s % Byte

\* lines 163-165 and 173-175: the duty written is the high byte of the accumulator
Duty(s) == s \div Byte

\* line 179: power-down sleep from now on
Teardown179 ==
    /\ pc = "L179"
    /\ sleepMode' = "PWR_DOWN"
    /\ pc' = "L180"
    /\ UNCHANGED << slp, hw, PRR, TCCR0A, TCCR0B, GTCCR, TCCR1, TIMSK, tcnt0h,
                    prng, tgt, loc, charged, hist, smp, outcome, rmp >>

\* line 180: disable the overflow interrupt
Teardown180 ==
    /\ pc = "L180"
    /\ TIMSK' = TIMSK \ {"TOIE0"}
    /\ pc' = "L182"
    /\ UNCHANGED << slp, hw, PRR, TCCR0A, TCCR0B, GTCCR, TCCR1, sleepMode, tcnt0h,
                    prng, tgt, loc, charged, hist, smp, outcome, rmp >>

\* lines 182-185: stop the timers and disconnect the PWM outputs
Teardown182 ==
    /\ pc = "L182"
    /\ TCCR0A' = {} /\ TCCR0B' = {} /\ GTCCR' = {} /\ TCCR1' = {}
    /\ pc' = "L187"
    /\ UNCHANGED << slp, hw, PRR, TIMSK, sleepMode, tcnt0h,
                    prng, tgt, loc, charged, hist, smp, outcome, rmp >>

\* the value written to PRR at line 187, with the write left out
PowerOffSkipped == PRR

\* the value written to PRR at line 187
PowerOff == PRR \cup {"PRTIM1", "PRTIM0"}

\* lines 187-188: power the timers off and return; the locals go out of scope
Teardown187 ==
    /\ pc = "L187"
    /\ PRR' = PowerOff
    /\ p1' = 0 /\ p2' = 0 /\ p3' = 0 /\ outcome' = -1
    /\ s1' = 0 /\ s2' = 0 /\ s3' = 0 /\ ri' = 0
    /\ steps' = 0 /\ waits' = 0 /\ ovfRuns' = 0
    /\ pc' = "L194"
    /\ UNCHANGED << slp, hw, TCCR0A, TCCR0B, GTCCR, TCCR1, TIMSK, sleepMode, tcnt0h,
                    prng, loc, charged, hist, smp, OCR0A, OCR0B, OCR1B, wra, draws >>

AnimateTeardown == Teardown179 \/ Teardown180 \/ Teardown182 \/ Teardown187

----------------------------------------------------------------------------
(* animateLoop(), lines 191-197 *)

\* line 192 with the comparison off by one
BudgetLeftOffByOne(k) == k <= LoopBudget

\* line 192: i < 240
BudgetLeft(k) == k < LoopBudget

\* line 194 with the condition inverted
BurstReturnsOnDay(r) == ~r

\* line 194: if (night()) return
BurstReturns(r) == r

\* line 209 and the initialiser of line 192
AnimateLoopEnter ==
    /\ pc = "L209" /\ cycles < MaxStart
    /\ i' = 0 /\ pc' = "L192"
    /\ bursts' = Sat1(bursts) /\ sleeps8' = 0
    /\ UNCHANGED << slp, hw, tmr, prng, tgt, ra, result, charged, cycles, burstCycles,
                    burstPolls, firstNight, firstDay, lastPoll, pollsIdle,
                    nightOnly, smp, outcome, rmp >>

\* line 192: the loop condition; a failed test leaves animateLoop()
LoopTest ==
    /\ pc = "L192"
    /\ IF BudgetLeft(i)
       THEN pc' = "L193" /\ UNCHANGED << i, sleeps8 >>
       ELSE pc' = "L212" /\ sleeps8' = 0 /\ i' = 0   \* i goes out of scope
    /\ UNCHANGED << slp, hw, tmr, prng, tgt, ra, result, charged, cycles, burstCycles,
                    burstPolls, firstNight, firstDay, lastPoll, bursts, pollsIdle,
                    nightOnly, smp, outcome, rmp >>

\* line 194 after night() returned, and the i++ of line 192
BurstTest ==
    /\ pc = "L194t"
    /\ IF BurstReturns(result)
       THEN pc' = "L212" /\ sleeps8' = 0 /\ i' = 0   \* i goes out of scope
       ELSE pc' = "L192" /\ i' = (i + 1) % Byte /\ UNCHANGED sleeps8
    /\ UNCHANGED << slp, hw, tmr, prng, tgt, ra, result, charged, cycles, burstCycles,
                    burstPolls, firstNight, firstDay, lastPoll, bursts, pollsIdle,
                    nightOnly, smp, outcome, rmp >>

AnimateLoop == AnimateLoopEnter \/ LoopTest \/ BurstTest

----------------------------------------------------------------------------
(* the two idle loops of main(), lines 211-217 *)

\* line 213 with the negation dropped
DayLoopRepeatsOnNight(r) == r

\* line 213: while (!night())
DayLoopRepeats(r) == ~r

\* line 217 with a negation added
NightLoopRepeatsOnDay(r) == ~r

\* line 217: while (night())
NightLoopRepeats(r) == r

\* line 213 after night() returned
DayLoopTest ==
    /\ pc = "L213t"
    /\ pc' = IF DayLoopRepeats(result) THEN "L212" ELSE "L216"
    /\ UNCHANGED << slp, hw, tmr, prng, tgt, loc, charged, hist, smp, outcome, rmp >>

\* line 217 after night() returned; leaving the loop starts the next round of line 208
NightLoopTest ==
    /\ pc = "L217t"
    /\ pc' = IF NightLoopRepeats(result) THEN "L216" ELSE "L209"
    /\ UNCHANGED << slp, hw, tmr, prng, tgt, loc, charged, hist, smp, outcome, rmp >>

----------------------------------------------------------------------------
(* The ramp of animateOne(), lines 159-177, statement by statement *)

\* lines 160-165: one step up; the duties are the high bytes of the accumulators
RampUpBody ==
    /\ pc = "L154"
    /\ s1' = AccAdd(s1, p1) /\ s2' = AccAdd(s2, p2) /\ s3' = AccAdd(s3, p3)
    /\ OCR0A' = Duty(AccAdd(s1, p1))
    /\ OCR0B' = Duty(AccAdd(s2, p2))
    /\ OCR1B' = Duty(AccAdd(s3, p3))
    /\ steps' = steps + 1
    /\ pc' = "L166"
    /\ UNCHANGED << slp, hw, tmr, prng, tgt, loc, charged, hist, smp, outcome,
                    ri, wt, waits, draws >>

\* line 167: ++i != 0
RampUpTest ==
    /\ pc = "L167"
    /\ ri' = (ri + 1) % Byte
    /\ pc' = IF (ri + 1) % Byte # 0 THEN "L154" ELSE "L170"
    /\ UNCHANGED << slp, hw, tmr, prng, tgt, loc, charged, hist, smp, outcome,
                    s1, s2, s3, OCR0A, OCR0B, OCR1B, wt, cnt, draws >>

\* lines 170-175: one step down
RampDownBody ==
    /\ pc = "L170"
    /\ s1' = AccSub(s1, p1) /\ s2' = AccSub(s2, p2) /\ s3' = AccSub(s3, p3)
    /\ OCR0A' = Duty(AccSub(s1, p1))
    /\ OCR0B' = Duty(AccSub(s2, p2))
    /\ OCR1B' = Duty(AccSub(s3, p3))
    /\ steps' = steps + 1
    /\ pc' = "L176"
    /\ UNCHANGED << slp, hw, tmr, prng, tgt, loc, charged, hist, smp, outcome,
                    ri, wt, waits, draws >>

\* line 177: ++i != 0
RampDownTest ==
    /\ pc = "L177"
    /\ ri' = (ri + 1) % Byte
    /\ pc' = IF (ri + 1) % Byte # 0 THEN "L170" ELSE "L179"
    /\ UNCHANGED << slp, hw, tmr, prng, tgt, loc, charged, hist, smp, outcome,
                    s1, s2, s3, OCR0A, OCR0B, OCR1B, wt, cnt, draws >>

\* the two calls of waitTimer() and the statements they return to
WaitCallers == {"L166", "L176"}
AfterWait(p) == IF p = "L166" THEN "L167" ELSE "L177"

----------------------------------------------------------------------------
(* waitTimer(), lines 94-101, statement by statement, and the overflow handler *)

\* the loop test of line 96 leaving one overflow early
WaitMoreEarly(t) == t < 3

\* line 96: tcnt0h < 4
WaitMore(t) == t < 4

\* line 95, entered from one of the two calls: tcnt0h = 0
Wait95 ==
    /\ pc \in WaitCallers /\ cpu = "run"
    /\ wra' = pc /\ pc' = "L96"
    /\ tcnt0h' = 0 /\ ovfRuns' = 0
    /\ UNCHANGED << slp, hw, PRR, TCCR0A, TCCR0B, GTCCR, TCCR1, TIMSK, sleepMode,
                    prng, tgt, loc, charged, hist, smp, outcome, acc, cnt, draws >>

\* line 96: the loop test; when it fails waitTimer() returns to its caller
Wait96 ==
    /\ pc = "L96"
    /\ IF WaitMore(tcnt0h)
       THEN pc' = "L97" /\ UNCHANGED << wra, waits >>
       ELSE pc' = AfterWait(wra) /\ wra' = "none" /\ waits' = waits + 1
    /\ UNCHANGED << slp, hw, tmr, prng, tgt, loc, charged, hist, smp, outcome,
                    acc, ovfRuns, steps, draws >>

\* lines 97-98: sei, sleep_cpu
Wait97 ==
    /\ pc = "L97" /\ cpu = "run"
    /\ SREG_I' = TRUE /\ cpu' = "sleep" /\ wakeCause' = "none"
    /\ UNCHANGED << pc, hw, tmr, prng, tgt, loc, charged, hist, smp, outcome, rmp >>

\* line 42 counting two for one overflow
IncrementTwice(t) == (t + 2) % Byte

\* line 42: tcnt0h++ on a uint8_t
Increment(t) == (t + 1) % Byte

\* ISR(TIM0_OVF_vect), lines 41-43: a timer 0 overflow wakes the processor and counts
TIM0_OVF_vect ==
    /\ cpu = "sleep" /\ SREG_I
    /\ "TOIE0" \in TIMSK /\ "CS00" \in TCCR0B /\ "PRTIM0" \notin PRR
    /\ tcnt0h' = Increment(tcnt0h)
    /\ ovfRuns' = ovfRuns + 1
    /\ cpu' = "woken" /\ wakeCause' = "OVF"
    /\ UNCHANGED << pc, SREG_I, hw, PRR, TCCR0A, TCCR0B, GTCCR, TCCR1, TIMSK, sleepMode,
                    prng, tgt, loc, charged, hist, smp, outcome, acc, wra,
                    cnt, draws >>

\* line 99 left out: the loop goes on with interrupts enabled
Wait99NoCli ==
    /\ pc = "L97" /\ cpu = "woken"
    /\ cpu' = "run" /\ pc' = "L96"
    /\ UNCHANGED << SREG_I, wakeCause, hw, tmr, prng, tgt, loc, charged, hist, smp, outcome,
                    acc, wra, ovfRuns, cnt, draws >>

\* line 99: cli
Wait99 ==
    /\ pc = "L97" /\ cpu = "woken"
    /\ SREG_I' = FALSE /\ cpu' = "run" /\ pc' = "L96"
    /\ UNCHANGED << wakeCause, hw, tmr, prng, tgt, loc, charged, hist, smp, outcome,
                    acc, wra, ovfRuns, cnt, draws >>

----------------------------------------------------------------------------
(* The program *)

AnimateRamp ==
    \/ RampUpBody \/ RampUpTest \/ RampDownBody \/ RampDownTest
    \/ Wait95 \/ Wait96 \/ Wait97 \/ Wait99

AnimateOne == AnimateSelect \/ AnimateSetup \/ AnimateRamp \/ AnimateTeardown

\* cycles followed from boot
MaxBoot == 6
\* cycles followed in each burst after the boot burst
MaxLater == 2
\* cycles followed from each of the two late states of the boot burst
MaxTail == 4

\* the boot burst is also followed from its 185th cycle on, where line 193 is next
\* reached with a generator state that gives two channels the amplitude 255
TargetStart == 185

\* and from MaxTail cycles before the budget of line 192 is used up
BudgetStart == LoopBudget - MaxTail

\* generator state g.s and number of draws g.d after one more call of animateOne()
AfterCycle(g) ==
    LET t == fadeTarget(g.s)
    IN  [s |-> t.s, d |-> g.d + (IF t.sel = 0 THEN 1 ELSE 3)]

AfterCycle4(g) == AfterCycle(AfterCycle(AfterCycle(AfterCycle(g))))

\* ... after n more calls, made one by one (in runs of four while four remain);
\* h is a generator state and a count, settled before the remaining calls are made
RECURSIVE AfterCycles(_, _)
AfterCycles(g, n) ==
    IF n = 0 THEN g
    ELSE LET h == IF n >= 4 THEN AfterCycle4(g) ELSE AfterCycle(g)
             m == IF n >= 4 THEN n - 4 ELSE n - 1
         IN  IF h.d \in Nat /\ h.s \in [x : 0..255, a : 0..255, b : 0..255, c : 0..255]
             THEN AfterCycles(h, m)
             ELSE h

\* the generator and the draws made, at the two late states
GenAtTarget == AfterCycles([s |-> Seed, d |-> 0], TargetStart)
GenAtBudget == AfterCycles([s |-> Seed, d |-> 0], BudgetStart)

\* The boot burst at line 192 after n >= 1 cycles, with the generator in state g, every poll so far having read DAY
\* and at least one of the cycles having faded: the state the steps from Init lead to
\* when light discharges the pin in each of the n calls of night().
\* With every cycle of the boot burst followed, TLC reaches LateBoot(185, GenAtTarget)
\* from Init in 1397392 steps and LateBoot(236, GenAtBudget) likewise.
LateBoot(n, g) ==
        /\ pc = "L192" /\ ra = "L194" /\ cpu = "run" /\ SREG_I = FALSE
        /\ DDRB = {LED0_BIT, LED1_BIT, LED2_BIT, LED3_BIT}
        /\ PORTB = (0..7) \ {LED0_BIT, LED1_BIT, LED2_BIT, LED3_BIT}
        /\ GIMSK = {} /\ GIFR = {} /\ WDTCR = wdSleepValue(WDTO_250MS)
        /\ PRR = {"PRTIM1", "PRTIM0", "PRUSI", "PRADC"}
        /\ TCCR0A = {} /\ TCCR0B = {} /\ GTCCR = {} /\ TCCR1 = {} /\ TIMSK = {}
        /\ sleepMode = "PWR_DOWN" /\ tcnt0h = 4
        /\ x = g.s.x /\ a = g.s.a /\ b = g.s.b /\ c = g.s.c
        /\ p1 = 0 /\ p2 = 0 /\ p3 = 0 /\ i = n /\ result = FALSE
        /\ charged = FALSE /\ wakeCause = "none"
        /\ cycles = n /\ burstCycles = n /\ burstPolls = n
        /\ firstNight = 0 /\ firstDay = 1 /\ lastPoll = "DAY"
        /\ bursts = 1 /\ sleeps8 = 0 /\ pollsIdle = 1 /\ nightOnly = FALSE
        /\ sampledPin = FALSE /\ sampledMode = FALSE /\ outcome = -1
        /\ s1 = 0 /\ s2 = 0 /\ s3 = 0 /\ ri = 0
        /\ OCR0A = 0 /\ OCR0B = 0 /\ OCR1B = 0 /\ wra = "none"
        /\ steps = 0 /\ waits = 0 /\ ovfRuns = 0 /\ draws = g.d

\* the cycles of the boot burst that are followed
BootWindow(n) ==
    \/ n < MaxBoot
    \/ n >= TargetStart /\ n < TargetStart + MaxTail
    \/ n >= BudgetStart

\* animateOne() is entered in the followed cycles of the boot burst and in the first
\* MaxLater cycles of each later burst
BurstSelect ==
    /\ IF bursts = 1 THEN BootWindow(burstCycles) ELSE burstCycles < MaxLater
    /\ AnimateSelect

Next ==
    \/ AnimateLoopEnter \/ LoopTest \/ BurstTest
    \/ BurstSelect \/ Setup134 \/ Setup136 \/ Setup148 \/ Setup152
    \/ RampUpBody \/ RampUpTest \/ RampDownBody \/ RampDownTest
    \/ Wait95 \/ Wait96 \/ Wait97 \/ Wait99
    \/ Teardown179 \/ Teardown180 \/ Teardown182 \/ Teardown187
    \/ Night63 \/ Night65 \/ Night66 \/ Night68 \/ Night69
    \/ Night71 \/ Night72 \/ Night74 \/ Night75
    \/ WdSleepEnter \/ WdSleepReturn
    \/ WDT_vect \/ INT0_vect \/ TIM0_OVF_vect
    \/ Discharge
    \/ DayLoopTest \/ NightLoopTest

\* the state after the setup section of main(), and the two late states
InitSpec ==
    \/ Init
    \/ LateBoot(TargetStart, GenAtTarget)
    \/ LateBoot(BudgetStart, GenAtBudget)

Spec == InitSpec /\ [][Next]_vars

----------------------------------------------------------------------------
(* The program under fair scheduling: the processor executes its next         *)
(* statement, an armed watchdog times out, and a running timer 0 overflows    *)
(* again and again however often the watchdog wakes the idle sleep first.     *)

MaxLive == 3

\* animateOne() is entered for the first MaxLive cycles only: two that fade and the
\* first idle one, which sleeps at line 110
LiveSelect == cycles < MaxLive /\ AnimateSelect

\* the statements of the program after a call of animateOne() has chosen its target;
\* handlers and ambient light excluded
ProgramStep ==
    \/ AnimateLoopEnter \/ LoopTest \/ BurstTest
    \/ Setup134 \/ Setup136 \/ Setup148 \/ Setup152
    \/ RampUpBody \/ RampUpTest \/ RampDownBody \/ RampDownTest
    \/ Wait95 \/ Wait96 \/ Wait97 \/ Wait99
    \/ Teardown179 \/ Teardown180 \/ Teardown182 \/ Teardown187
    \/ Night63 \/ Night65 \/ Night66 \/ Night68 \/ Night69 \/ Night71
    \/ Night72 \/ Night74 \/ Night75
    \/ WdSleepEnter \/ WdSleepReturn
    \/ DayLoopTest \/ NightLoopTest

NextLive ==
    \/ LiveSelect
    \/ ProgramStep
    \/ WDT_vect \/ INT0_vect \/ TIM0_OVF_vect
    \/ Discharge

SpecLive ==
    /\ Init /\ [][NextLive]_vars
    /\ WF_vars(ProgramStep)
    /\ WF_vars(WDT_vect)
    /\ SF_vars(TIM0_OVF_vect)

----------------------------------------------------------------------------
(* The generator alone: calls of random() from the seed of lines 79-82 *)

MaxDraws == 128

\* the registers as lines 79-82 initialise them, before the first call
InitPrng == Init

\* one call of random(), lines 85-91
PrngDraw ==
    /\ draws < MaxDraws
    /\ LET r == random([x |-> x, a |-> a, b |-> b, c |-> c])
       IN  x' = r.x /\ a' = r.a /\ b' = r.b /\ c' = r.c
    /\ draws' = draws + 1
    /\ UNCHANGED << pc, slp, hw, tmr, tgt, loc, charged, hist, smp, outcome, acc, wt, cnt >>

NextPrng == PrngDraw

SpecPrng == InitPrng /\ [][NextPrng]_vars

----------------------------------------------------------------------------
(* Properties *)

\* animateLoop() has just returned to main(): line 212 is about to run for the first time
BurstExited == pc = "L212" /\ cpu = "run" /\ sleeps8 = 0

\* positions inside the two ramp loops of animateOne(), waitTimer() included
RampBody == {"L154", "L166", "L167", "L170", "L176", "L177", "L179", "L96", "L97"}

\* positions inside animateOne() after the fade target has been selected
NonIdleBody == {"L134", "L136", "L148", "L152", "L180", "L182", "L187"} \cup RampBody
CycleBody == {"L110"} \cup NonIdleBody

\* C1 as stated: once a poll of the burst has read DAY (the first one being poll k),
\* no further cycle is run, so the cycles of the burst stay at k.
C1_ExitOnFirstDay ==
    firstDay > 0 => burstCycles = firstDay

\* C1 as amended: the sensor is polled once after each cycle, and the burst is left on
\* the first NIGHT reading: if that is poll k, 1 <= k <= 240, exactly k cycles have run,
\* the controller is at the test of line 194 or already at the first idle loop, and no
\* (k+1)-th cycle is run.
C1_ExitOnFirstNight ==
    /\ burstPolls <= burstCycles /\ burstCycles <= burstPolls + 1
    /\ firstNight > 0 =>
          /\ firstNight >= 1 /\ firstNight <= LoopBudget
          /\ burstCycles = firstNight /\ burstPolls = firstNight
          /\ pc \in {"L194t", "L212"}

C1_Witness ==
    BurstExited /\ firstNight = 5 /\ burstCycles = 5 /\ burstPolls = 5

\* C2 as stated: a burst in which no poll read DAY (every poll read NIGHT) ends after
\* exactly 240 cycles.
C2_FullBudgetWhenAlwaysNight ==
    (BurstExited /\ firstDay = 0) => burstCycles = LoopBudget

\* C2 as amended: a burst in which no poll read NIGHT (every poll read DAY) ends after
\* exactly 240 cycles and 240 polls, and only then reaches the idle loops.
C2_FullBudgetWhenAlwaysDay ==
    (BurstExited /\ firstNight = 0) =>
        (burstCycles = LoopBudget /\ burstPolls = LoopBudget)

C2_Witness ==
    BurstExited /\ firstNight = 0 /\ firstDay = 1 /\ burstCycles = LoopBudget

\* C3 as stated: a burst other than the boot burst begins only when the latest poll read
\* NIGHT, and no cycle is started when the latest poll read DAY.
C3_AnimateOnlyAfterNight ==
    /\ (pc = "L209" /\ bursts >= 1) => lastPoll = "NIGHT"
    /\ pc \in CycleBody => lastPoll # "DAY"

\* C3 as amended: a burst other than the boot burst begins only when the latest poll read
\* DAY, and no cycle is started when the latest poll read NIGHT.
C3_AnimateOnlyAfterDay ==
    /\ (pc = "L209" /\ bursts >= 1) => lastPoll = "DAY"
    /\ pc \in ({"L193"} \cup CycleBody) => lastPoll # "NIGHT"

C3_Witness ==
    pc = "L134" /\ bursts >= 2 /\ burstCycles = 1 /\ lastPoll = "DAY"

\* C4 as stated: a NIGHT reading in the wait loop that follows a burst sends the
\* controller back to animating (line 209).
C4_NightReadingResumes ==
    [][(pc = "L213t" /\ result) => pc' = "L209"]_vars

\* C4 as amended: a NIGHT reading in either idle loop leads to the sleep of the second
\* idle loop (line 216), never to a burst; and while every poll since boot has read
\* NIGHT, nothing but the single cycle of the boot burst has run and the controller
\* never returns to line 209.
C4_NoBurstWithoutDay ==
    /\ [](nightOnly => (cycles <= 1 /\ bursts <= 1 /\ (bursts = 1 => pc # "L209")))
    /\ [][(pc \in {"L213t", "L217t"} /\ result /\ pc' # pc) => pc' = "L216"]_vars

C4_Witness ==
    nightOnly /\ pc = "L217t" /\ result /\ sleeps8 = Sat /\ cycles = 1

\* The order of the two idle loops, as steps of main()
IdleLoopOrder ==
    /\ (pc \in {"L192", "L194t"} /\ pc' \notin {"L192", "L193", pc}) => pc' = "L212"
    /\ (pc = "L212" /\ pc' # pc) => pc' = "L213"
    /\ (pc = "L213t" /\ pc' # pc) => pc' = IF result THEN "L216" ELSE "L212"
    /\ (pc = "L216" /\ pc' # pc) => pc' = "L217"
    /\ (pc = "L217t" /\ pc' # pc) => pc' = IF result THEN "L216" ELSE "L209"

\* C5: after every burst the controller runs "sleep 8 s, poll" while the poll is not
\* NIGHT, then "sleep 8 s, poll" while the poll is NIGHT, and only then returns to line
\* 209; so at least two 8 s sleeps and two polls separate two bursts, and the first
\* poll of the first idle loop directly follows the last poll of the burst.
C5_IdleLoops ==
    /\ [][IdleLoopOrder]_vars
    /\ []((pc = "L209" /\ bursts >= 1) => (sleeps8 >= 2 /\ pollsIdle >= 3))
    /\ []((pc = "L213t" /\ sleeps8 = 1) => pollsIdle = 2)
    /\ [](pc = "L216" => lastPoll = "NIGHT")

C5_Witness ==
    pc = "L209" /\ bursts = 1 /\ cycles = 1 /\ sleeps8 = 2 /\ pollsIdle = 3

\* C6: a burst runs at least 1 and at most 240 cycles.
C6_BurstBounded ==
    /\ burstCycles <= LoopBudget
    /\ BurstExited => (burstCycles >= 1 /\ burstCycles <= LoopBudget)

C6_Witness ==
    BurstExited /\ bursts = 1 /\ burstCycles = LoopBudget /\ lastPoll = "DAY"

\* C7: the value of night() is the level of the floating sense pin at line 71; a sleep
\* ended by the watchdog with the pin still high gives NIGHT, a sleep ended by INT0
\* gives DAY.
C7_SensorBias ==
    pc \in {"L72", "L74", "L75"} =>
        /\ sampledMode
        /\ result = sampledPin
        /\ (wakeCause = "WDT" /\ sampledPin) => result
        /\ wakeCause = "INT0" => ~result

C7_Witness ==
    pc = "L75" /\ wakeCause = "WDT" /\ result /\ sampledPin

\* C8: when night() returns, whatever its result and whichever handler ended the
\* discharge sleep, PB2 is an output again and INT0 is disabled.
C8_SensorRestores ==
    pc \in {"L75", "L194t", "L213t", "L217t"} =>
        (LED0_BIT \in DDRB /\ "INT0" \notin GIMSK)

C8_Witness ==
    pc = "L75" /\ wakeCause = "INT0" /\ ~result /\ ra = "L213"

\* the timers are powered off, stopped, disconnected from the pins, and silent
TimersOff ==
    /\ {"PRTIM1", "PRTIM0"} \subseteq PRR
    /\ TCCR0A = {} /\ TCCR0B = {} /\ GTCCR = {} /\ TCCR1 = {}
    /\ "TOIE0" \notin TIMSK

\* C9: outside the ramp section of animateOne() the timers are off, and PB2 is an
\* input only while they are off.
C9_SensingExcludesPwm ==
    /\ pc \notin (NonIdleBody \ {"L134"}) => TimersOff
    /\ LED0_BIT \notin DDRB => TimersOff

C9_Witness ==
    pc = "L70" /\ cpu = "sleep" /\ Floating /\ tcnt0h = 4 /\ cycles >= 2

\* C10 as stated: a non-idle target has exactly one channel at 255, at most one other
\* non-zero and the third 0; the idle target is all 0.
C10_ExactlyOnePeak ==
    /\ pc \in NonIdleBody =>
          /\ Cardinality({k \in 1..3 : <<p1, p2, p3>>[k] = 255}) = 1
          /\ Cardinality({k \in 1..3 : <<p1, p2, p3>>[k] = 0}) >= 1
    /\ pc = "L110" => (p1 = 0 /\ p2 = 0 /\ p3 = 0)

\* C10 as amended: in a non-idle target the channel named by the outcome is 255, at
\* least one of the two others is 0 (the other one is any byte, 255 included); the
\* idle target is all 0.
C10_PrimaryPeak ==
    /\ pc \in NonIdleBody =>
          /\ outcome \in 1..3
          /\ <<p1, p2, p3>>[outcome] = 255
          /\ \E k \in (1..3) \ {outcome} : <<p1, p2, p3>>[k] = 0
          /\ \A k \in 1..3 : <<p1, p2, p3>>[k] \in 0..255
    /\ pc = "L110" => (outcome = 0 /\ p1 = 0 /\ p2 = 0 /\ p3 = 0)

C10_Witness ==
    pc = "L134" /\ outcome = 3 /\ p3 = 255 /\ p2 = 255 /\ p1 = 0

\* the duty that k steps up (k <= 256), or 256 steps up and k - 256 steps down,
\* give a channel of amplitude A
ExpectedDuty(A, k) ==
    IF k <= RampSteps THEN (k * A) \div Byte ELSE ((2 * RampSteps - k) * A) \div Byte

\* a step of the up-ramp never lowers a duty, a step of the down-ramp never raises one
RampMonotone ==
    (steps' = steps + 1) =>
        IF steps < RampSteps
        THEN OCR0A' >= OCR0A /\ OCR0B' >= OCR0B /\ OCR1B' >= OCR1B
        ELSE OCR0A' <= OCR0A /\ OCR0B' <= OCR0B /\ OCR1B' <= OCR1B

\* lines 160-165 and 170-175 for every amplitude A and every step k of a loop: adding
\* A to k * A gives (k + 1) * A without wrapping and a duty no lower, the duty after
\* the 256th addition is A; subtracting A from (k + 1) * A gives k * A and a duty no
\* higher, and the duty of 0 is 0
RampArithmetic ==
    \A A \in 0..(Byte - 1) :
        /\ Duty(RampSteps * A) = A
        /\ Duty(0) = 0
        /\ \A k \in 0..(RampSteps - 1) :
              /\ AccAdd(k * A, A) = (k + 1) * A
              /\ Duty(AccAdd(k * A, A)) >= Duty(k * A)
              /\ Duty(AccAdd(k * A, A)) = ExpectedDuty(A, k + 1)
              /\ AccSub((k + 1) * A, A) = k * A
              /\ Duty(AccSub((k + 1) * A, A)) <= Duty((k + 1) * A)
              /\ Duty(AccSub((k + 1) * A, A)) = ExpectedDuty(A, 2 * RampSteps - k)

\* C11: whatever the amplitudes, the up-ramp makes exactly 256 steps, no duty written
\* ever decreases, each duty is its amplitude after step 256 and the accumulator has
\* not wrapped; the down-ramp makes exactly 256 more steps and takes the duties back
\* to 0 along the same values.
C11_RampShape ==
    /\ [][RampMonotone]_vars
    /\ []RampArithmetic
    /\ [](pc \in RampBody =>
          /\ steps <= 2 * RampSteps
          /\ OCR0A = ExpectedDuty(p1, steps)
          /\ OCR0B = ExpectedDuty(p2, steps)
          /\ OCR1B = ExpectedDuty(p3, steps)
          /\ (steps <= RampSteps =>
                 s1 = steps * p1 /\ s2 = steps * p2 /\ s3 = steps * p3)
          /\ (pc = "L170" /\ ri = 0 =>
                 steps = RampSteps /\ OCR0A = p1 /\ OCR0B = p2 /\ OCR1B = p3)
          /\ (pc = "L179" =>
                 steps = 2 * RampSteps /\ OCR0A = 0 /\ OCR0B = 0 /\ OCR1B = 0
                 /\ s1 = 0 /\ s2 = 0 /\ s3 = 0))

C11_Witness ==
    pc = "L170" /\ ri = 0 /\ steps = RampSteps /\ p1 = 97 /\ OCR0A = 97 /\ OCR1B = 255

\* what one call of random() does to the four registers
PrngUpdateRule ==
    (draws' = draws + 1) =>
        /\ x' = (x + 1) % Byte
        /\ a' = Xor8(Xor8(a, c), x')
        /\ b' = (b + a') % Byte
        /\ c' = (c + Xor8(b' \div 2, a')) % Byte

\* C12: each call of random() applies the update rule to the state it finds and to
\* nothing else, so the sequence is fixed by the seed; from the seed CA FE BA BE the
\* first byte returned is 103 and the second is 121.
C12_PrngSequence ==
    /\ [][PrngUpdateRule]_vars
    /\ [](/\ x = (Seed.x + draws) % Byte
          /\ (draws = 0 => a = Seed.a /\ b = Seed.b /\ c = Seed.c)
          /\ (draws = 1 => c = 103)
          /\ (draws = 2 => c = 121))

C12_Witness == draws = 2 /\ c = 121 /\ x = 204

----------------------------------------------------------------------------
(* Sleeps and interrupt enables *)

InWdSleep == pc \in SleepSites /\ cpu \in {"sleep", "woken"}

\* C13: INT0 is enabled only from line 68 to line 72 of night(), that is around the
\* 250 ms sleep of line 70; in the 15 ms, 500 ms and 8 s sleeps INT0 and the
\* timer 0 overflow interrupt are both disabled and the wake is the watchdog's.
C13_OnlyWindowWakesEarly ==
    /\ ("INT0" \in GIMSK => pc \in {"L69", "L70", "L71", "L72"})
    /\ (InWdSleep /\ pc # "L70" =>
            /\ "INT0" \notin GIMSK /\ "TOIE0" \notin TIMSK
            /\ ~ENABLED INT0_vect /\ ~ENABLED TIM0_OVF_vect
            /\ (cpu = "woken" => wakeCause = "WDT"))

C13_Witness ==
    pc = "L110" /\ cpu = "woken" /\ wakeCause = "WDT" /\ cycles = 3

SleepStepKeepsInt0 ==
    (pc \in SleepSites) => (("INT0" \in GIMSK') <=> ("INT0" \in GIMSK))

\* C14: no step of wdSleep (programming the watchdog, sleeping, a handler, cli and
\* return) changes the INT0 enable bit, whatever the timeout and the wake cause.
C14_SleepKeepsInt0 ==
    [][SleepStepKeepsInt0]_vars

C14_Witness ==
    pc = "L71" /\ wakeCause = "INT0" /\ "INT0" \in GIMSK

TimersRun ==
    /\ "PRTIM0" \notin PRR /\ "PRTIM1" \notin PRR
    /\ "CS00" \in TCCR0B /\ "CS10" \in TCCR1

\* C15: every watchdog sleep is in power-down mode with both timers powered off;
\* idle mode is selected exactly from line 152 to line 179, the ramp, where both
\* timers run, and every sleep of waitTimer() is an idle sleep.
C15_SleepDepth ==
    /\ (InWdSleep =>
            sleepMode = "PWR_DOWN" /\ "PRTIM0" \in PRR /\ "PRTIM1" \in PRR)
    /\ (sleepMode = "IDLE" <=> pc \in RampBody)
    /\ (sleepMode = "IDLE" => TimersRun)
    /\ (cpu \in {"sleep", "woken"} /\ ~InWdSleep => sleepMode = "IDLE")

C15_Witness ==
    pc = "L110" /\ cpu = "sleep" /\ sleepMode = "PWR_DOWN" /\ cycles = 3

DrivenHigh == LED0_BIT \in DDRB /\ LED0_BIT \in PORTB

\* C16: inside night() the pin is driven high as an output through the 15 ms sleep,
\* is then made an input and released, INT0 is enabled and its flag cleared before
\* the 250 ms sleep starts, the pin is sampled while it still floats with INT0
\* enabled, then INT0 is disabled and only then the pin is an output again.
C16_SensingOrder ==
    /\ (pc \in {"L64", "L65"} => DrivenHigh /\ "INT0" \notin GIMSK)
    /\ (pc = "L66" => LED0_BIT \notin DDRB /\ LED0_BIT \in PORTB /\ "INT0" \notin GIMSK)
    /\ (pc = "L68" => Floating /\ "INT0" \notin GIMSK)
    /\ (pc = "L69" => Floating /\ "INT0" \in GIMSK)
    /\ (pc \in {"L70", "L71"} => Floating /\ "INT0" \in GIMSK /\ "INTF0" \notin GIFR)
    /\ (pc = "L72" => Floating /\ "INT0" \in GIMSK /\ sampledMode)
    /\ (pc = "L74" => Floating /\ "INT0" \notin GIMSK /\ sampledMode)
    /\ (pc = "L75" => LED0_BIT \in DDRB /\ "INT0" \notin GIMSK /\ sampledMode)

C16_Witness ==
    pc = "L75" /\ sampledMode /\ result /\ ra = "L213"

----------------------------------------------------------------------------
(* Interrupt handlers *)

\* a step that is the run of an interrupt handler
HandlerStep == cpu = "sleep" /\ cpu' = "woken"

\* the variables of the C program: the globals and the locals of the functions
progVars == << tcnt0h, x, a, b, c, p1, p2, p3, i, result, s1, s2, s3, ri >>

\* C17 as stated: no handler changes a program variable.
C17_HandlersChangeNothing ==
    [][HandlerStep => UNCHANGED progVars]_vars

HandlerEffect ==
    HandlerStep =>
        /\ UNCHANGED << x, a, b, c, p1, p2, p3, i, result, s1, s2, s3, ri >>
        /\ UNCHANGED << pc, SREG_I, hw, PRR, TCCR0A, TCCR0B, GTCCR, TCCR1, TIMSK, sleepMode,
                        OCR0A, OCR0B, OCR1B >>
        /\ IF wakeCause' = "OVF" THEN tcnt0h' = (tcnt0h + 1) % Byte
                                 ELSE tcnt0h' = tcnt0h

\* C17: the watchdog and INT0 handlers change no program variable and no register;
\* the timer 0 overflow handler adds one to tcnt0h and changes nothing else.
C17_OnlyOverflowCounts ==
    [][HandlerEffect]_vars

C17_Witness ==
    pc = "L97" /\ cpu = "woken" /\ wakeCause = "OVF" /\ tcnt0h = 3 /\ BitSet(WDTCR, WDIE)

InWait == pc \in {"L96", "L97"}

\* C18: waitTimer() returns with exactly four runs of the overflow handler since its
\* entry, also when the watchdog has woken its sleep in between; until then the
\* counter equals the number of runs; every ramp step is followed by one call of
\* waitTimer(), 512 of each in a ramp.
C18_FourOverflows ==
    /\ (InWait => tcnt0h = ovfRuns /\ ovfRuns <= 4)
    /\ (pc \in {"L167", "L177"} => tcnt0h = 4 /\ ovfRuns = 4)
    /\ steps = waits + (IF pc \in WaitCallers \/ InWait THEN 1 ELSE 0)
    /\ (pc = "L179" => steps = 2 * RampSteps /\ waits = 2 * RampSteps)

C18_Witness ==
    pc = "L96" /\ wakeCause = "WDT" /\ ovfRuns = 3 /\ tcnt0h = 3 /\ steps = RampSteps

Tcnt0hChange ==
    (tcnt0h' # tcnt0h) =>
        \/ pc = "L97" /\ HandlerStep
        \/ pc \in WaitCallers /\ tcnt0h' = 0

HandlerFrame ==
    HandlerStep =>
        UNCHANGED << x, a, b, c, DDRB, PORTB, PRR, TCCR0A, TCCR0B, GTCCR, TCCR1, TIMSK >>

\* C20: the I flag is set exactly while the processor is in a sleep step, so no
\* handler can run while the program runs: tcnt0h changes only by the handler in
\* the sleep of waitTimer() and by the reset of line 95, never between that reset
\* and the loop test; no handler changes the PRNG state, the pin mode or the timer
\* configuration.
C20_InterruptsOnlyInSleep ==
    /\ [](SREG_I <=> cpu \in {"sleep", "woken"})
    /\ [](cpu = "run" =>
              ~ENABLED WDT_vect /\ ~ENABLED INT0_vect /\ ~ENABLED TIM0_OVF_vect)
    /\ [][Tcnt0hChange]_vars
    /\ [][HandlerFrame]_vars

C20_Witness ==
    pc = "L96" /\ cpu = "run" /\ ~SREG_I /\ tcnt0h = 0 /\ BitSet(WDTCR, WDIE) /\ steps = 1

----------------------------------------------------------------------------
(* Termination of the calls *)

InNight == pc \in {"L64", "L65", "L66", "L68", "L69", "L70", "L71", "L72", "L74", "L75"}

InAnimateOne == pc \in CycleBody

\* C19: every sleep of wdSleep and of waitTimer() is ended, every call of
\* waitTimer(), night() and animateOne() returns, and the program always has a next
\* step: away from the call of animateOne() a statement or a handler is enabled,
\* and at the call the processor runs, where animateOne() has no other guard than
\* the number of cycles modelled.
C19_CallsReturn ==
    /\ (cpu = "sleep") ~> (cpu = "run")
    /\ (InWait \/ pc \in WaitCallers) ~> (pc \in {"L167", "L177"})
    /\ InNight ~> (pc \in {"L194t", "L213t", "L217t"})
    /\ InAnimateOne ~> (pc = "L194")
    /\ [](pc # "L193" =>
              ENABLED (ProgramStep \/ WDT_vect \/ INT0_vect \/ TIM0_OVF_vect))
    /\ [](pc = "L193" => cpu = "run")

\* the third call of animateOne(), the first idle one, has returned from its 500 ms
\* sleep of line 110, after two calls that faded through waitTimer()
C19_Witness ==
    /\ pc = "L194" /\ cpu = "run" /\ cycles = 3 /\ wakeCause = "WDT"
    /\ WDTCR = wdSleepValue(WDTO_500MS) /\ tcnt0h = 4

====
